---- MODULE Spec2Model ----
(***************************************************************************)
(* Model of scripts/fix_bind_pose.py: a batch driver that checks two       *)
(* directory arguments, lists the .bvh entries of the source directory and *)
(* runs modifyFile on each, which rewrites the file in two passes          *)
(* (read / correct / write, reload / remove motion / reset root / write).  *)
(*                                                                         *)
(* Rotations and world positions are kept as terms: the list of library    *)
(* calls applied to a value loaded from a file.  The geometry computed     *)
(* inside bvhio (world-space bookkeeping of writeRestPose's keep=, the     *)
(* compensation of children by a non-recursive roll) is not interpreted.   *)
(***************************************************************************)
EXTENDS Integers, Sequences, FiniteSets, TLC

(* ---------------------------------------------------------------- bounds *)
MaxRuns == 2          \* invocations of the script on the same file system
MaxFrames == 2        \* keyframes of an input file

(* ------------------------------------------------------- program constants *)
NumIndexed == 22      \* layout indices 0..21 are addressed by modifyFile
FrameTimeDen == 30    \* frameTime=1/30

(* ------------------------------------------------------------ file names *)
\* a file name is the sequence of its characters, so that endswith is computed
BvhExt == <<".", "b", "v", "h">>
NameA == <<"a">> \o BvhExt
NameB == <<"b">> \o BvhExt
NameT == <<"a", "b", "v", "h">>
Names == {NameA, NameB, NameT}

Dirs == {"in", "out"}                         \* the directories that exist
PathArgs == {"in", "./in", "out", "nodir"}    \* the values of sys.argv[1], sys.argv[2]

\* the directory a path string names: two strings may name the same directory
Resolve(path) == IF path = "./in" THEN "in" ELSE path

\* variant: the dot of the extension is not compared
EndsWith_NoDot(item, suffix) ==
    /\ Len(item) >= Len(suffix) - 1
    /\ SubSeq(item, Len(item) - Len(suffix) + 2, Len(item)) = Tail(suffix)

EndsWith(item, suffix) ==
    /\ Len(item) >= Len(suffix)
    /\ SubSeq(item, Len(item) - Len(suffix) + 1, Len(item)) = suffix

\* os.path.exists(path)
Exists(path) == Resolve(path) \in Dirs

\* os.path.join(dir, file)
Join(dir, file) == <<dir, file>>

\* the file a joined path names
File(path) == <<Resolve(path[1]), path[2]>>

(* ----------------------------------------------------- the input skeleton *)
\* the joints of the Bandai-Namco skeleton in layout order, with their depth
JointNames ==
    << "joint_Root", "Hips", "Spine", "Chest", "Neck", "Head",
       "Shoulder_L", "UpperArm_L", "LowerArm_L", "Hand_L",
       "Shoulder_R", "UpperArm_R", "LowerArm_R", "Hand_R",
       "UpperLeg_L", "LowerLeg_L", "Foot_L", "Toes_L",
       "UpperLeg_R", "LowerLeg_R", "Foot_R", "Toes_R" >>

JointDepths ==
    << 0, 1, 2, 3, 4, 5,
       4, 5, 6, 7,
       4, 5, 6, 7,
       2, 3, 4, 5,
       2, 3, 4, 5 >>

\* a joint as stored in a .bvh file: rest pose and keyframes
FileJoint(k, nframes) ==
    [ Name |-> JointNames[k],
      Depth |-> JointDepths[k],
      Offset |-> IF k = 2 THEN <<1, 2, 3>> ELSE <<0, 1, 0>>,
      RestPose |-> [ Rotation |-> << [file |-> JointNames[k]] >>,
                     PositionWorld |-> << [restpos |-> JointNames[k]] >> ],
      Keyframes |-> [ f \in 1..nframes |->
                        [ Rotation |-> << [key |-> JointNames[k], frame |-> f] >>,
                          PositionWorld |-> << [keypos |-> JointNames[k], frame |-> f] >> ] ] ]

Absent == [kind |-> "absent"]
Garbage == [kind |-> "garbage"]

BvhFile(njoints, nframes) ==
    [ kind |-> "bvh",
      FrameTime |-> <<1, 120>>,
      Root |-> [ k \in 1..njoints |-> FileJoint(k, nframes) ] ]

GoodFile == BvhFile(NumIndexed, MaxFrames)
ShortFile == BvhFile(3, 1)

(* --------------------------------------------- bvhio calls on a hierarchy *)
\* A hierarchy in memory is the sequence of its joints in layout (pre-order)
\* order; layout index i is position i + 1.  A context c carries the
\* hierarchy c.h and the log c.log of the calls made on its joints.

\* bvhio.convertBvhToHierarchy(bvh.Root).loadRestPose(recursive=True)
ConvertAndLoadRest(joints) ==
    [ k \in 1..Len(joints) |->
        [ Name |-> joints[k].Name,
          Depth |-> joints[k].Depth,
          Offset |-> joints[k].Offset,
          Rotation |-> joints[k].RestPose.Rotation,
          RestPose |-> joints[k].RestPose,
          Keyframes |-> joints[k].Keyframes ] ]

\* readAsHierarchy: the offset of the root's first child loses x and z
readAsHierarchy(content) ==
    LET joints == content.Root
        moved == [joints EXCEPT ![2].Offset = <<0, @[2], 0>>]
    IN  ConvertAndLoadRest(moved)

\* readAsHierarchy raises unless the file parses and its root has a child
Readable(content) == content.kind = "bvh"

HasFirstChild(content) == Len(content.Root) >= 2

\* positions of the descendants of the joint at position p
Descendants(h, p) ==
    { q \in (p + 1)..Len(h) : \A r \in (p + 1)..q : h[r].Depth > h[p].Depth }

Logged(c, fn, p, arg) ==
    Append(c.log, [ fn |-> fn, idx |-> p - 1, joint |-> c.h[p].Name,
                    pass |-> c.pass, frame |-> c.frame, arg |-> arg ])

\* layout[i][0].setEuler(e)
setEuler(c, i, e) ==
    [c EXCEPT !.h = [c.h EXCEPT ![i + 1].Rotation = << [euler |-> e] >>],
              !.log = Logged(c, "setEuler", i + 1, e)]

RollAll(h, ps, deg) ==
    [ k \in 1..Len(h) |->
        IF k \in ps THEN [h[k] EXCEPT !.Rotation = Append(@, [roll |-> deg])]
                    ELSE h[k] ]

\* layout[i][0].roll(deg, recursive)
roll(c, i, deg, recursive) ==
    LET ps == IF recursive THEN {i + 1} \cup Descendants(c.h, i + 1) ELSE {i + 1}
    IN  [c EXCEPT !.h = RollAll(c.h, ps, deg),
                  !.log = Logged(c, "roll", i + 1, <<deg>>)]

\* layout[i][0].Rotation *= glm.angleAxis(glm.radians(deg), axis)
mulAngleAxis(c, i, deg, axis) ==
    [c EXCEPT !.h = [c.h EXCEPT ![i + 1].Rotation =
                                    Append(@, [mul |-> deg, axis |-> axis])],
              !.log = Logged(c, "mul", i + 1, <<deg>> \o axis)]

\* root.loadRestPose(): the root only
loadRestPoseRoot(c) ==
    [c EXCEPT !.h = [c.h EXCEPT ![1].Rotation = c.h[1].RestPose.Rotation]]

\* root.writeRestPose(recursive=True, keep=[...])
writeRestPose(c) ==
    [c EXCEPT !.h = [ k \in 1..Len(c.h) |->
                        [c.h[k] EXCEPT !.RestPose.Rotation = c.h[k].Rotation] ]]

\* variant: the pose of the frame is not loaded, the current one is kept
loadPose_Keep(c, frame) == [c EXCEPT !.frame = frame]

\* root.loadPose(frame, recursive=True)
loadPose(c, frame) ==
    [c EXCEPT !.frame = frame,
              !.h = [ k \in 1..Len(c.h) |->
                        [c.h[k] EXCEPT !.Rotation = c.h[k].Keyframes[frame].Rotation] ]]

\* root.writePose(frame, recursive=True)
writePose(c, frame) ==
    [c EXCEPT !.h = [ k \in 1..Len(c.h) |->
                        [c.h[k] EXCEPT !.Keyframes[frame].Rotation = c.h[k].Rotation] ]]

\* root.getKeyframeRange(): the frames of the root
KeyframeCount(h) == Len(h[1].Keyframes)

(* -------------------------------------------------- modifyFile, pass 1 *)
\* the Euler constants of lines 36-60, by layout index 1..21
TPoseEuler ==
    << <<0, 90, 0>>, <<0, 0, 0>>, <<0, 90, 0>>, <<0, 0, 0>>, <<0, 0, 0>>,
       <<0, 0, -90>>, <<0, 0, 0>>, <<0, 0, 0>>, <<0, 0, 0>>,
       <<0, 0, 90>>, <<0, 0, 0>>, <<0, 0, 0>>, <<0, 0, 0>>,
       <<0, 0, 180>>, <<0, 0, 0>>, <<0, 0, 0>>, <<0, 0, 0>>,
       <<0, 0, 180>>, <<0, 0, 0>>, <<0, 0, 0>>, <<0, 0, 0>> >>

\* variant: only the first 16 lines of the block assign
TPoseLine_First16(c, i) ==
    IF i > 16 THEN c
    ELSE IF i = 3 THEN roll(setEuler(c, i, TPoseEuler[i]), i, -90, FALSE)
                  ELSE setEuler(c, i, TPoseEuler[i])

\* one line of the T-pose block: layout[i][0].setEuler(..), the Chest also rolled
TPoseLine(c, i) ==
    IF i = 3 THEN roll(setEuler(c, i, TPoseEuler[i]), i, -90, FALSE)
             ELSE setEuler(c, i, TPoseEuler[i])

RECURSIVE TPoseLines(_, _, _)
TPoseLines(c, i, last) ==
    IF i > last THEN c ELSE TPoseLines(TPoseLine(c, i), i + 1, last)

\* lines 35-61
SetTPose(c) ==
    writeRestPose(TPoseLines(loadRestPoseRoot(c), 1, Len(TPoseEuler)))

\* layout[21] must exist, else the block raises IndexError before line 61
TPoseIndexable(h) == Len(h) >= NumIndexed

\* lines 68-79: the corrections of one frame
CorrectFrame(c) ==
    LET c1 == roll(c, 2, -90, FALSE)
        c2 == roll(c1, 3, -90, FALSE)
        c3 == roll(c2, 4, -90, FALSE)
        c4 == roll(c3, 5, -90, FALSE)
        c5 == roll(c4, 10, 180, TRUE)
        c6 == roll(c5, 18, 180, TRUE)
        c7 == mulAngleAxis(c6, 5, -90, <<1, 0, 0>>)
        c8 == mulAngleAxis(c7, 9, -90, <<0, 0, 1>>)
        c9 == mulAngleAxis(c8, 13, -90, <<0, 0, 1>>)
        c10 == mulAngleAxis(c9, 17, -90, <<0, 0, 1>>)
    IN  mulAngleAxis(c10, 21, -90, <<0, 0, 1>>)

\* lines 67-80: one iteration of the frame loop
FrameStep(c, frame) == writePose(CorrectFrame(loadPose(c, frame)), frame)

\* variant: the loaded root is kept
ClearParentFirstChild_KeepRoot(h) == h

\* root.Children[0].clearParent(): the first child and its subtree
ClearParentFirstChild(h) ==
    LET keep == {2} \cup Descendants(h, 2)
        n == Cardinality(keep)
    IN  [ k \in 1..n |-> [h[k + 1] EXCEPT !.Depth = @ - 1] ]

\* bvhio.writeHierarchy(path, root, frameTime=1/30): the content of the file
writeHierarchy(h) ==
    [ kind |-> "bvh",
      FrameTime |-> <<1, FrameTimeDen>>,
      Root |-> [ k \in 1..Len(h) |->
                   [ Name |-> h[k].Name,
                     Depth |-> h[k].Depth,
                     Offset |-> h[k].Offset,
                     RestPose |-> h[k].RestPose,
                     Keyframes |-> h[k].Keyframes ] ] ]

(* -------------------------------------------------- modifyFile, pass 2 *)
\* remove_motion(joint) on the joint at position p only (lines 10-12)
RemoveMotionAt(j) ==
    [j EXCEPT !.Keyframes =
        [ f \in 1..Len(j.Keyframes) |->
            [j.Keyframes[f] EXCEPT !.PositionWorld = j.RestPose.PositionWorld] ]]

\* lines 93-94: remove_motion on every child of the root, recursively
RemoveMotionChildren(h) ==
    [ k \in 1..Len(h) |->
        IF k \in Descendants(h, 1) THEN RemoveMotionAt(h[k]) ELSE h[k] ]

\* the lines printed by remove_motion, in the order of the recursion
RemovedMotionPrints(h) ==
    LET ds == SelectSeq([k \in 1..Len(h) |-> k], LAMBDA k : k \in Descendants(h, 1))
    IN  [ n \in 1..Len(ds) |->
            [print |-> "Removed motion for keyframes", n |-> Len(h[ds[n]].Keyframes)] ]

\* variant: pass 2 addresses layout index 1 as pass 1 did
ResetRoot_Index1(c) == writeRestPose(setEuler(loadRestPoseRoot(c), 1, <<0, 90, 0>>))

\* lines 96-99
ResetRoot(c) == writeRestPose(setEuler(loadRestPoseRoot(c), 0, <<0, 90, 0>>))

(* ------------------------------------------------------------ the state *)
VARIABLES
    fs,         \* the file system: content of every path of the two directories
    argv,       \* <<sourceDir, destinationDir>> of the current run
    pc,         \* the position of the script
    files,      \* the list built by lines 115-116
    idx,        \* position in files of the for loop of line 119
    ctx,        \* root / layout of the current modifyFile call, with its call log
    frame,      \* the loop variable of line 66
    trace,      \* prints and file-system calls of the current run, in order
    run,        \* number of runs started
    fs0,        \* the file system when the current run started
    hist,       \* contents read and written by the current modifyFile call
    produced,   \* contents written so far by any call, by pass
    failedAt    \* where the exception that ended the run was raised

vars == <<fs, argv, pc, files, idx, ctx, frame, trace, run, fs0, hist, produced, failedAt>>

Paths == Dirs \X Names

NoCtx == [h |-> <<>>, log |-> <<>>, pass |-> 0, frame |-> 0]
NoHist == [read1 |-> Absent, wrote1 |-> Absent, read2 |-> Absent, wrote2 |-> Absent]

Stopped == {"idle", "exited", "crashed", "done"}

\* the file systems a run may start from
InitialFs ==
    { f \in [Paths -> {Absent, Garbage, GoodFile, ShortFile}] :
        /\ f[<<"in", NameA>>] \in {GoodFile, Garbage, ShortFile}
        /\ f[<<"in", NameB>>] \in {Absent, GoodFile, Garbage}
        /\ f[<<"in", NameT>>] = Garbage
        /\ f[<<"out", NameA>>] \in {Absent, Garbage}
        /\ f[<<"out", NameB>>] = Absent
        /\ f[<<"out", NameT>>] = Absent }

Init ==
    /\ fs \in InitialFs
    /\ argv = <<"nodir", "nodir">>
    /\ pc = "idle"
    /\ files = <<>>
    /\ idx = 1
    /\ ctx = NoCtx
    /\ frame = 1
    /\ trace = <<>>
    /\ run = 0
    /\ fs0 = fs
    /\ hist = NoHist
    /\ produced = [pass1 |-> {}, pass2 |-> {}]
    /\ failedAt = "none"

\* os.listdir(dir)
ListDir(dir) == { n \in Names : fs[File(Join(dir, n))] # Absent }

Orders(S) ==
    { q \in [1..Cardinality(S) -> S] : \A i, j \in 1..Cardinality(S) : q[i] = q[j] => i = j }

SourcePath == Join(argv[1], files[idx])
\* variant: the output path is built from the source directory
DestinationPath_InSource == Join(argv[1], files[idx])

DestinationPath == Join(argv[2], files[idx])

\* variant: pass 2 reloads the source file
ReloadPath_Source == SourcePath

\* line 90 reads the path that line 84 wrote
ReloadPath == DestinationPath

\* variant: the exception is caught around the call and the loop goes on
Raise_NextFile ==
    /\ pc' = "loop"
    /\ failedAt' = pc
    /\ idx' = idx + 1

\* an unhandled exception: nothing catches it, the interpreter exits
Raise ==
    /\ pc' = "crashed"
    /\ failedAt' = pc
    /\ idx' = idx

(* -------------------------------------------------------- the batch driver *)
\* lines 105-106: the script is started with two arguments
Start(s, d) ==
    /\ pc \in Stopped
    /\ run < MaxRuns
    /\ run' = run + 1
    /\ argv' = <<s, d>>
    /\ pc' = "check_source"
    /\ files' = <<>>
    /\ idx' = 1
    /\ ctx' = NoCtx
    /\ frame' = 1
    /\ trace' = <<>>
    /\ fs0' = fs
    /\ hist' = NoHist
    /\ failedAt' = "none"
    /\ UNCHANGED <<fs, produced>>

\* lines 108-110
CheckSource ==
    /\ pc = "check_source"
    /\ IF Exists(argv[1])
         THEN /\ pc' = "check_destination"
              /\ trace' = trace
         ELSE /\ pc' = "exited"
              /\ trace' = Append(trace, [print |-> "Source path does not exist"])
    /\ UNCHANGED <<fs, argv, files, idx, ctx, frame, run, fs0, hist, produced, failedAt>>

\* variant: the message is printed but the script goes on
CheckDestination_NoExit ==
    /\ pc = "check_destination"
    /\ pc' = "list"
    /\ trace' = IF Exists(argv[2]) THEN trace
                 ELSE Append(trace, [print |-> "Destination path does not exist"])
    /\ UNCHANGED <<fs, argv, files, idx, ctx, frame, run, fs0, hist, produced, failedAt>>

\* lines 111-113
CheckDestination ==
    /\ pc = "check_destination"
    /\ IF Exists(argv[2])
         THEN /\ pc' = "list"
              /\ trace' = trace
         ELSE /\ pc' = "exited"
              /\ trace' = Append(trace, [print |-> "Destination path does not exist"])
    /\ UNCHANGED <<fs, argv, files, idx, ctx, frame, run, fs0, hist, produced, failedAt>>

\* lines 115-117; os.listdir returns the entries in arbitrary order
ListFiles ==
    /\ pc = "list"
    /\ \E order \in Orders({ item \in ListDir(argv[1]) : EndsWith(item, BvhExt) }) :
          /\ files' = order
          /\ trace' = trace \o << [listdir |-> argv[1]],
                                  [print |-> "Found bvh files", n |-> Len(order)] >>
    /\ idx' = 1
    /\ pc' = "loop"
    /\ UNCHANGED <<fs, argv, ctx, frame, run, fs0, hist, produced, failedAt>>

\* lines 119-122: the next file is handed to modifyFile
CallModifyFile ==
    /\ pc = "loop"
    /\ idx <= Len(files)
    /\ trace' = Append(trace, [call |-> <<SourcePath, DestinationPath>>])
    /\ ctx' = NoCtx
    /\ frame' = 1
    /\ hist' = NoHist
    /\ pc' = "mf_load"
    /\ UNCHANGED <<fs, argv, files, idx, run, fs0, produced, failedAt>>

\* line 124
Finish ==
    /\ pc = "loop"
    /\ idx > Len(files)
    /\ trace' = Append(trace, [print |-> "Done."])
    /\ pc' = "done"
    /\ UNCHANGED <<fs, argv, files, idx, ctx, frame, run, fs0, hist, produced, failedAt>>

(* -------------------------------------------------------------- modifyFile *)
\* lines 29-31; the read may fail in the operating system (ioOk = FALSE)
MF_Load ==
    /\ pc = "mf_load"
    /\ trace' = trace \o << [print |-> "Loading", file |-> SourcePath[2]],
                            [read |-> SourcePath] >>
    /\ hist' = [hist EXCEPT !.read1 = fs[File(SourcePath)]]
    /\ \E ioOk \in BOOLEAN :
          IF ioOk /\ Readable(fs[File(SourcePath)]) /\ HasFirstChild(fs[File(SourcePath)])
            THEN /\ ctx' = [ h |-> readAsHierarchy(fs[File(SourcePath)]), log |-> <<>>,
                             pass |-> 1, frame |-> 0 ]
                 /\ pc' = "mf_tpose"
                 /\ UNCHANGED <<idx, failedAt>>
            ELSE /\ Raise
                 /\ ctx' = ctx
    /\ UNCHANGED <<fs, argv, files, frame, run, fs0, produced>>

\* lines 33-61
MF_SetTPose ==
    /\ pc = "mf_tpose"
    /\ trace' = Append(trace, [print |-> "| Set T-pose"])
    /\ IF TPoseIndexable(ctx.h)
         THEN /\ ctx' = SetTPose(ctx)
              /\ pc' = "mf_frames"
              /\ UNCHANGED <<idx, failedAt>>
         ELSE /\ ctx' = TPoseLines(loadRestPoseRoot(ctx), 1, Len(ctx.h) - 1)
              /\ Raise
    /\ frame' = 1
    /\ UNCHANGED <<fs, argv, files, run, fs0, hist, produced>>

\* lines 66-80: one iteration
MF_Frame ==
    /\ pc = "mf_frames"
    /\ frame <= KeyframeCount(ctx.h)
    /\ ctx' = FrameStep(ctx, frame)
    /\ frame' = frame + 1
    /\ UNCHANGED <<fs, argv, pc, files, idx, trace, run, fs0, hist, produced, failedAt>>

\* lines 82-84; the file is written, or cannot be opened (ioOk = FALSE)
MF_Write1 ==
    /\ pc = "mf_frames"
    /\ frame > KeyframeCount(ctx.h)
    /\ LET newRoot == ClearParentFirstChild(ctx.h)
           content == writeHierarchy(newRoot)
       IN  /\ ctx' = [ctx EXCEPT !.h = newRoot]
           /\ \E ioOk \in BOOLEAN :
                 IF ioOk
                   THEN /\ fs' = [fs EXCEPT ![File(DestinationPath)] = content]
                        /\ trace' = Append(trace, [write |-> DestinationPath])
                        /\ hist' = [hist EXCEPT !.wrote1 = content]
                        /\ produced' = [produced EXCEPT !.pass1 = @ \cup {content}]
                        /\ pc' = "mf_reload"
                        /\ UNCHANGED <<idx, failedAt>>
                   ELSE /\ Raise
                        /\ UNCHANGED <<fs, trace, hist, produced>>
    /\ UNCHANGED <<argv, files, frame, run, fs0>>

\* lines 90-91
MF_Reload ==
    /\ pc = "mf_reload"
    /\ trace' = Append(trace, [read |-> ReloadPath])
    /\ hist' = [hist EXCEPT !.read2 = fs[File(ReloadPath)]]
    /\ \E ioOk \in BOOLEAN :
          IF ioOk /\ Readable(fs[File(ReloadPath)])
            THEN /\ ctx' = [ h |-> ConvertAndLoadRest(fs[File(ReloadPath)].Root),
                             log |-> ctx.log, pass |-> 2, frame |-> 0 ]
                 /\ pc' = "mf_motion"
                 /\ UNCHANGED <<idx, failedAt>>
            ELSE /\ Raise
                 /\ ctx' = ctx
    /\ UNCHANGED <<fs, argv, files, frame, run, fs0, produced>>

\* lines 93-94
MF_RemoveMotion ==
    /\ pc = "mf_motion"
    /\ ctx' = [ctx EXCEPT !.h = RemoveMotionChildren(ctx.h)]
    /\ trace' = trace \o RemovedMotionPrints(ctx.h)
    /\ pc' = "mf_reset"
    /\ UNCHANGED <<fs, argv, files, idx, frame, run, fs0, hist, produced, failedAt>>

\* lines 96-99
MF_ResetRoot ==
    /\ pc = "mf_reset"
    /\ ctx' = ResetRoot(ctx)
    /\ pc' = "mf_write2"
    /\ UNCHANGED <<fs, argv, files, idx, frame, trace, run, fs0, hist, produced, failedAt>>

\* lines 101-102, then back to the for loop of line 119
MF_Write2 ==
    /\ pc = "mf_write2"
    /\ LET content == writeHierarchy(ctx.h)
       IN  \E ioOk \in BOOLEAN :
              IF ioOk
                THEN /\ fs' = [fs EXCEPT ![File(DestinationPath)] = content]
                     /\ trace' = trace \o << [print |-> "| Write file"],
                                             [write |-> DestinationPath] >>
                     /\ hist' = [hist EXCEPT !.wrote2 = content]
                     /\ produced' = [produced EXCEPT !.pass2 = @ \cup {content}]
                     /\ pc' = "loop"
                     /\ idx' = idx + 1
                     /\ failedAt' = failedAt
                ELSE /\ Raise
                     /\ trace' = Append(trace, [print |-> "| Write file"])
                     /\ UNCHANGED <<fs, hist, produced>>
    /\ UNCHANGED <<argv, files, ctx, frame, run, fs0>>

Next ==
    \/ \E s, d \in PathArgs : Start(s, d)
    \/ CheckSource
    \/ CheckDestination
    \/ ListFiles
    \/ CallModifyFile
    \/ Finish
    \/ MF_Load
    \/ MF_SetTPose
    \/ MF_Frame
    \/ MF_Write1
    \/ MF_Reload
    \/ MF_RemoveMotion
    \/ MF_ResetRoot
    \/ MF_Write2

Spec == Init /\ [][Next]_vars

(* ------------------------------------------------------------ properties *)
Missing(path) == path = "nodir"
BothExist == run >= 1 /\ ~Missing(argv[1]) /\ ~Missing(argv[2])

IsIO(e) == "read" \in DOMAIN e \/ "write" \in DOMAIN e
IsCall(e) == "call" \in DOMAIN e
IsDone(e) == e = [print |-> "Done."]

Prefix(a, b) == Len(a) <= Len(b) /\ SubSeq(b, 1, Len(a)) = a

\* a name that ends in '.bvh', character by character
HasBvhSuffix(n) ==
    /\ Len(n) >= 4
    /\ n[Len(n) - 3] = "." /\ n[Len(n) - 2] = "b" /\ n[Len(n) - 1] = "v" /\ n[Len(n)] = "h"

\* the entries of the source directory, when the run started, that end in '.bvh'
SelectedAtStart ==
    { n \in Names : fs0[<<Resolve(argv[1]), n>>] # Absent /\ HasBvhSuffix(n) }

Calls == SelectSeq(trace, IsCall)

\* the call during which the event at position i of the trace happened
CallBefore(i) ==
    LET js == { j \in 1..i : IsCall(trace[j]) }
    IN  trace[CHOOSE j \in js : \A k \in js : k <= j]

(* C1: if the source or the destination path does not exist when the script
   starts, the run prints the corresponding message and stops: the source
   directory is not listed, modifyFile is called for no file, nothing is read
   or written and 'Done.' is not printed. *)
C1_MissingPathStops ==
    (run >= 1 /\ (Missing(argv[1]) \/ Missing(argv[2]))) =>
        LET msg == IF Missing(argv[1]) THEN "Source path does not exist"
                                       ELSE "Destination path does not exist"
        IN  /\ pc \in {"check_source", "check_destination", "exited"}
            /\ trace \in { <<>>, << [print |-> msg] >> }
            /\ (pc = "exited" <=> trace = << [print |-> msg] >>)
            /\ fs = fs0
            /\ files = <<>>
            /\ hist = NoHist

C1_Witness ==
    /\ pc = "exited"
    /\ ~Missing(argv[1])
    /\ Missing(argv[2])
    /\ trace = << [print |-> "Destination path does not exist"] >>

(* C2: when both directories exist, modifyFile is called only for entries of
   the source directory whose name ends in '.bvh', for each at most once and,
   when the run completes, for every one of them; and every write made
   while entry f is processed targets destinationDir/f. *)
C2_SelectsBvhEntries ==
    BothExist =>
        /\ \A i \in 1..Len(Calls) :
              /\ Calls[i].call[1][1] = argv[1]
              /\ Calls[i].call[2][1] = argv[2]
              /\ Calls[i].call[1][2] = Calls[i].call[2][2]
              /\ Calls[i].call[1][2] \in SelectedAtStart
              /\ \A j \in 1..Len(Calls) : Calls[i] = Calls[j] => i = j
        /\ \A i \in 1..Len(trace) :
              "write" \in DOMAIN trace[i] =>
                  /\ \E j \in 1..i : IsCall(trace[j])
                  /\ trace[i].write = <<argv[2], CallBefore(i).call[1][2]>>
        /\ pc = "done" =>
              { Calls[i].call[1][2] : i \in 1..Len(Calls) } = SelectedAtStart

C2_Witness ==
    /\ pc = "done"
    /\ Len(Calls) = 2
    /\ fs0[<<Resolve(argv[1]), NameT>>] # Absent
    /\ fs # fs0

\* the entries of the call log made by fn in the given pass and frame
LogOf(fn, pass, fr) ==
    SelectSeq(ctx.log, LAMBDA e : e.fn = fn /\ e.pass = pass /\ e.frame = fr)

IndicesOf(log) == { log[n].idx : n \in 1..Len(log) }

NamesOf(joints) == [ k \in 1..Len(joints) |-> joints[k].Name ]

\* the T-pose block of pass 1 is over and the hierarchy still has its loaded root
AfterTPose == pc = "mf_frames" /\ ctx.pass = 1 /\ Len(ctx.h) = Len(hist.read1.Root)

\* layout indices whose rest-pose rotation is no longer the one loaded from the file
RestOverwritten ==
    { i \in 0..(Len(ctx.h) - 1) :
        ctx.h[i + 1].RestPose.Rotation # hist.read1.Root[i + 1].RestPose.Rotation }

(* C3 as stated: in pass 1, for a 22-joint input, the rest-pose rotation of
   exactly 16 joints of the layout is overwritten with a fixed Euler
   constant. *)
C3_Original ==
    (AfterTPose /\ Len(ctx.h) = 22) =>
        /\ Cardinality(RestOverwritten) = 16
        /\ Cardinality(IndicesOf(LogOf("setEuler", 1, 0))) = 16

(* C3 amended: in pass 1, for a 22-joint input, the rest-pose rotation of
   exactly 21 joints of the layout (indices 1 to 21, every joint but the
   loaded root) is overwritten, each once, with a fixed constant that does not
   depend on the file; the joint at index 0 keeps the rest-pose rotation
   loaded from the file, and the order of the joints is unchanged. *)
C3_TPoseOverwrites21 ==
    (AfterTPose /\ Len(ctx.h) = 22) =>
        /\ RestOverwritten = 1..21
        /\ Cardinality(RestOverwritten) = 21
        /\ IndicesOf(LogOf("setEuler", 1, 0)) = 1..21
        /\ Len(LogOf("setEuler", 1, 0)) = 21
        /\ \A i \in 1..21 :
              LET r == ctx.h[i + 1].RestPose.Rotation
              IN  /\ "euler" \in DOMAIN r[1]
                  /\ \A n \in 1..Len(r) : "file" \notin DOMAIN r[n] /\ "key" \notin DOMAIN r[n]
        /\ ctx.h[1].RestPose.Rotation = hist.read1.Root[1].RestPose.Rotation
        /\ NamesOf(ctx.h) = NamesOf(hist.read1.Root)

C3_Witness ==
    /\ AfterTPose
    /\ Len(ctx.h) = 22
    /\ frame = 1
    /\ ctx.h[2].RestPose.Rotation = << [euler |-> <<0, 90, 0>>] >>

\* the events of the trace since the last call of modifyFile
EventsOfCall ==
    LET js == { j \in 1..Len(trace) : IsCall(trace[j]) }
        last == CHOOSE j \in js : \A k \in js : k <= j
    IN  IF js = {} THEN <<>> ELSE SubSeq(trace, last, Len(trace))

\* a modifyFile call whose source is a file written by an earlier call
RerunOnOutput == hist.read1 \in produced.pass1 \cup produced.pass2

\* the places where only the operating system can make modifyFile fail
IOPoints == {"mf_load", "mf_frames", "mf_reload", "mf_write2"}

(* C5 as stated: running modifyFile on the final (pass 2) output of a
   previous run re-applies the corrections and yields a result that differs
   from its input. *)
C5_Original ==
    hist.read1 \in produced.pass2 =>
        /\ pc = "crashed" => failedAt \in IOPoints
        /\ hist.wrote2 # hist.read1

(* C5 amended: processing is not idempotent on its own output because it
   cannot be repeated at all: the output of a 22-joint input, pass 1 or pass
   2, has 21 joints (the loaded root was dropped), so modifyFile on it fails
   in the T-pose block on layout index 21 (unless reading already failed),
   corrects no frame and writes nothing. *)
C5_RerunFailsInTPose ==
    RerunOnOutput =>
        /\ Len(hist.read1.Root) = 21
        /\ pc \in {"mf_tpose", "crashed"}
        /\ pc = "crashed" => failedAt \in {"mf_load", "mf_tpose"}
        /\ hist.wrote1 = Absent /\ hist.wrote2 = Absent
        /\ \A n \in 1..Len(EventsOfCall) : "write" \notin DOMAIN EventsOfCall[n]
        /\ \A n \in 1..Len(ctx.log) : ctx.log[n].frame = 0

C5_Witness ==
    /\ pc = "crashed"
    /\ failedAt = "mf_tpose"
    /\ hist.read1 \in produced.pass2
    /\ Len(ctx.log) > 0

Count(seq, P(_)) == Len(SelectSeq(seq, P))

\* the file names touched by the reads and writes of the trace
IONames ==
    { (IF "read" \in DOMAIN trace[n] THEN trace[n].read ELSE trace[n].write)[2] :
        n \in { m \in 1..Len(trace) : IsIO(trace[m]) } }

\* everything C6 says about the state an exception leaves, but the destination of file k
AbortedBatch ==
    /\ pc = "crashed"
    /\ Count(trace, IsDone) = 0
    /\ Len(Calls) = idx
    /\ IONames \subseteq { files[j] : j \in 1..idx }
    /\ \A j \in 1..(idx - 1) : fs[File(Join(argv[2], files[j]))] \in produced.pass2
    /\ \A p \in Paths :
          (\A j \in 1..idx : p # File(Join(argv[2], files[j]))) => fs[p] = fs0[p]
    /\ hist.wrote1 # Absent => fs[File(DestinationPath)] = hist.wrote1

(* C6 as stated: a failure of modifyFile for the k-th file aborts the batch
   (no later file read or written, no 'Done.', earlier destinations stay as
   written) and leaves the destination of file k absent (failure before the
   first write) or holding the pass-1 output (failure between the writes).
   Stated for runs whose two directories differ, where the destination is
   not itself a source file. *)
C6_Original ==
    (failedAt # "none" /\ Resolve(argv[1]) # Resolve(argv[2])) =>
        /\ AbortedBatch
        /\ hist.wrote1 = Absent => fs[File(DestinationPath)] = Absent

(* C6 amended: as stated, except that after a failure before the first write
   the destination of file k is left as it was when the run started: absent
   if it did not exist, otherwise still holding its earlier content. *)
C6_AbortLeavesDestination ==
    failedAt # "none" =>
        /\ AbortedBatch
        /\ hist.wrote1 = Absent => fs[File(DestinationPath)] = fs0[File(DestinationPath)]

C6_Witness ==
    /\ pc = "crashed"
    /\ idx = 2
    /\ failedAt = "mf_tpose"
    /\ fs0[File(DestinationPath)] # Absent
    /\ fs[File(Join(argv[2], files[1]))] \in produced.pass2
    /\ Resolve(argv[1]) # Resolve(argv[2])

\* the calls, reads and writes of a run in which nothing fails
RECURSIVE ExpectedEvents(_)
ExpectedEvents(n) ==
    IF n = 0 THEN <<>>
    ELSE LET s == <<argv[1], files[n]>>
             d == <<argv[2], files[n]>>
         IN  ExpectedEvents(n - 1) \o
               << [call |-> <<s, d>>], [read |-> s], [write |-> d], [read |-> d], [write |-> d] >>

CallsAndIO == SelectSeq(trace, LAMBDA e : IsCall(e) \/ IsIO(e))

(* C7: when both directories exist and no step fails, the files are processed
   one at a time, each as read source, write destination, read destination,
   write destination; pass 2 reads exactly what pass 1 wrote; the next file
   is not started before the second write; 'Done.' is printed once, last. *)
C7_TwoPassesInOrder ==
    (BothExist /\ failedAt = "none") =>
        /\ Prefix(CallsAndIO, ExpectedEvents(Len(files)))
        /\ pc = "loop" => CallsAndIO = ExpectedEvents(idx - 1)
        /\ pc \in {"mf_motion", "mf_reset", "mf_write2"} =>
              /\ hist.wrote1 # Absent
              /\ hist.read2 = hist.wrote1
        /\ pc = "done" =>
              /\ CallsAndIO = ExpectedEvents(Len(files))
              /\ IsDone(trace[Len(trace)])
              /\ Count(trace, IsDone) = 1
        /\ pc # "done" => Count(trace, IsDone) = 0

C7_Witness ==
    /\ pc = "done"
    /\ Len(files) = 2
    /\ Len(CallsAndIO) = 10
    /\ Resolve(argv[1]) # Resolve(argv[2])

\* pass 1 is in its frame loop (or just past it) on the hierarchy as loaded
InFrameLoop == pc = "mf_frames" /\ ctx.pass = 1 /\ Len(ctx.h) = 22

(* C8 as stated: in each frame of pass 1 the roll correction is applied
   directly to exactly 7 distinct joints. *)
C8_Original ==
    InFrameLoop =>
        \A f \in 1..(frame - 1) : Cardinality(IndicesOf(LogOf("roll", 1, f))) = 7

(* C8 amended: in pass 1 every frame of the keyframe range is handled once, in
   order, as load, correct, write of that same frame; in each frame roll is
   called on exactly 6 distinct joints (layout 2, 3, 4, 5, 10, 18; the last
   two recursively); a corrected frame is that frame's loaded pose followed by
   the same corrections as any other frame, so nothing accumulates. *)
C8_FrameLoopRolls6 ==
    InFrameLoop =>
        /\ frame \in 1..(KeyframeCount(ctx.h) + 1)
        /\ \A f \in 1..(frame - 1) :
              /\ IndicesOf(LogOf("roll", 1, f)) = {2, 3, 4, 5, 10, 18}
              /\ Len(LogOf("roll", 1, f)) = 6
              /\ IndicesOf(LogOf("mul", 1, f)) = {5, 9, 13, 17, 21}
              /\ Len(LogOf("mul", 1, f)) = 5
              /\ \A k \in 1..Len(ctx.h) :
                    LET r == ctx.h[k].Keyframes[f].Rotation
                    IN  /\ r[1] = hist.read1.Root[k].Keyframes[f].Rotation[1]
                        /\ Tail(r) = Tail(ctx.h[k].Keyframes[1].Rotation)
                        /\ Len(r) <= 3
        /\ \A f \in frame..KeyframeCount(ctx.h) :
              /\ LogOf("roll", 1, f) = <<>>
              /\ \A k \in 1..Len(ctx.h) :
                    ctx.h[k].Keyframes[f].Rotation = hist.read1.Root[k].Keyframes[f].Rotation
        /\ \A n \in 1..Len(ctx.log) : ctx.log[n].frame < frame
        /\ \A m, n \in 1..Len(ctx.log) : m <= n => ctx.log[m].frame <= ctx.log[n].frame

C8_Witness ==
    /\ InFrameLoop
    /\ KeyframeCount(ctx.h) >= 2
    /\ frame = KeyframeCount(ctx.h) + 1
    /\ Len(ctx.h[6].Keyframes[2].Rotation) = 3

\* the setEuler calls made on the joint of the given name, in order
EulerCallsOn(name) ==
    SelectSeq(ctx.log, LAMBDA e : e.fn = "setEuler" /\ e.joint = name)

(* C9: the root of the hierarchy written to the destination is the first
   child of the root loaded from the source (layout index 1 of pass 1); the
   loaded root is absent from the output; and the joint pass 2 resets through
   layout index 0 is that same joint, which thus gets its Euler constant once
   in pass 1 and once more in pass 2, in that order. *)
C9_HipsBecomesRoot ==
    /\ hist.wrote1 # Absent =>
          /\ hist.wrote1.Root[1].Name = hist.read1.Root[2].Name
          /\ \A k \in 1..Len(hist.wrote1.Root) :
                hist.wrote1.Root[k].Name # hist.read1.Root[1].Name
          /\ hist.wrote1.Root[1].Depth = 0
    /\ (pc = "mf_write2" \/ hist.wrote2 # Absent) =>
          LET hips == hist.read1.Root[2].Name
              calls == EulerCallsOn(hips)
          IN  /\ ctx.h[1].Name = hips
              /\ Len(calls) = 2
              /\ calls[1].pass = 1 /\ calls[1].idx = 1
              /\ calls[2].pass = 2 /\ calls[2].idx = 0
              /\ calls[1].arg = calls[2].arg
              /\ LogOf("setEuler", 2, 0) = << calls[2] >>
    /\ hist.wrote2 # Absent =>
          /\ hist.wrote2.Root[1].Name = hist.read1.Root[2].Name
          /\ NamesOf(hist.wrote2.Root) = Tail(NamesOf(hist.read1.Root))

C9_Witness ==
    /\ pc = "loop"
    /\ hist.wrote2 # Absent
    /\ hist.wrote2.Root[1].Name = "Hips"
    /\ hist.read1.Root[1].Name = "joint_Root"
    /\ Len(hist.wrote2.Root) = 21

\* no file of the source directory was changed, every write went to the destination
SourceUntouched ==
    /\ \A n \in Names : fs[<<Resolve(argv[1]), n>>] = fs0[<<Resolve(argv[1]), n>>]
    /\ \A n \in 1..Len(trace) :
          "write" \in DOMAIN trace[n] => trace[n].write[1] = argv[2]

(* C10 as stated: for every pair of existing source and destination paths, a
   run changes no file of the source directory. *)
C10_Original == BothExist => SourceUntouched

(* C10 amended: for every pair of existing source and destination paths that
   do not name the same directory, a run creates, overwrites or modifies no
   file of the source directory: every write targets the destination
   directory and the source files keep their content. *)
C10_SourceUntouchedUnlessSameDir ==
    (BothExist /\ Resolve(argv[1]) # Resolve(argv[2])) => SourceUntouched

C10_Witness ==
    /\ pc = "done"
    /\ Len(files) = 2
    /\ Resolve(argv[1]) # Resolve(argv[2])
    /\ fs # fs0
    /\ SourceUntouched

====
